---- MODULE Spec2Model ----
(***************************************************************************)
(* Model of the product-recommendation front end: the App component's      *)
(* lifted state (App.js), the REST client (services/api.js) and the        *)
(* derived lists of the BrowsingHistory view (components/BrowsingHistory). *)
(*                                                                         *)
(* JavaScript values are encoded so that every comparison is between       *)
(* values of one shape:                                                    *)
(*   - an optional value (a field that may be missing, null) is a sequence *)
(*     of length 0 or 1: None, Some(x);                                    *)
(*   - a JSON payload is a record with one field per key the client reads  *)
(*     (detail, error, products, categories, recommendations), each        *)
(*     optional, and the array elements when the payload is an array;      *)
(*   - the null of the error state is the string Null.                     *)
(***************************************************************************)
EXTENDS Integers, Sequences, FiniteSets, TLC

VARIABLES
    \* App.js useState
    products, categories, isInitialLoading, userPreferences, browsingHistory,
    recommendations, isLoadingRecommendations, error, activeView, apiStatus,
    \* the asynchronous part: where loadInitialData stands, the two promises
    \* of its Promise.all, and the POST /recommendations requests in flight
    loadPc, productsPromise, categoriesPromise, recInFlight,
    \* observers (not program state): requests sent per endpoint, clicks on a
    \* Get AI Recommendations button, the logical time of product clicks, the
    \* time each product was last clicked, the last handler that ran, and the
    \* last call of apiRequest with what it returned or threw
    sent, recClicks, clock, lastClick, lastOp, apiCall,
    \* components/Catalog.js useState (the component is mounted while the
    \* catalog view is shown)
    filters,
    \* observer: what healthCheck(), fetchProducts() and fetchCategories() of
    \* the initial load did ("none": not called, "pending", "resolved",
    \* "rejected")
    settled,
    \* UserPreferences useState (the component is mounted while the
    \* preferences view is shown)
    localPreferences, validationErrors

appState == <<products, categories, isInitialLoading, userPreferences,
              browsingHistory, recommendations, isLoadingRecommendations,
              error, activeView, apiStatus>>
asyncState == <<loadPc, productsPromise, categoriesPromise, recInFlight>>
observers == <<sent, recClicks, clock, lastClick, lastOp, apiCall, settled>>
formState == <<localPreferences, validationErrors>>
vars == <<appState, asyncState, filters, formState, observers>>

-----------------------------------------------------------------------------
(* Bounds of the model *)

\* product clicks explored under Spec
MaxClicks == 2
\* product clicks explored under SpecHistory once the history has been filled
MaxExtraClicks == 3
\* clicks on a Get AI Recommendations button explored
MaxRecClicks == 2
\* product clicks and clicks on a Get AI Recommendations button explored
\* under SpecLive
MaxLiveClicks == 1
MaxLiveRecClicks == 1

-----------------------------------------------------------------------------
(* JavaScript values *)

None == <<>>
Some(x) == <<x>>
Has(o) == o # <<>>
Val(o) == o[1]

\* the null held by the error state
Null == "<null>"

\* truthiness of an optional string: undefined, null and '' are falsy
TruthyStr(o) == Has(o) /\ Val(o) # ""

Product(i) == [id |-> i]
Recommendation(i, c) == [product |-> Product(i), confidence_score |-> c]

\* a JSON object payload with none of the keys the client reads
EmptyObject ==
    [isNull |-> FALSE, isArray |-> FALSE, items |-> <<>>, detail |-> None,
     error |-> None, products |-> None, categories |-> None,
     recommendations |-> None]
\* the JSON payload null
NullPayload == [EmptyObject EXCEPT !.isNull = TRUE]
\* a JSON array payload
ArrayPayload(xs) == [EmptyObject EXCEPT !.isArray = TRUE, !.items = xs]

RangeOf(s) == {s[i] : i \in 1..Len(s)}

\* what an async function completed with: a returned value or a thrown error
Return(v) == [threw |-> FALSE, value |-> v]
Throw(e) == [threw |-> TRUE, value |-> e]

\* new Error(message)
JsError(message) == [name |-> "Error", message |-> message]
\* a TypeError or SyntaxError raised by the runtime
RuntimeError == [name |-> "TypeError", message |-> "runtime error"]

-----------------------------------------------------------------------------
(* services/api.js *)

\* class ApiError
ApiError(message, status, data) ==
    [name |-> "ApiError", message |-> message, status |-> status, data |-> data]

\* What the network does with one request: fetch rejects (no response), or
\* a response arrives with a status and a body that parses as JSON or not.
NoResponse ==
    [received |-> FALSE, status |-> 0, parses |-> FALSE, data |-> EmptyObject]
JsonResponse(status, data) ==
    [received |-> TRUE, status |-> status, parses |-> TRUE, data |-> data]
BadBody(status) ==
    [received |-> TRUE, status |-> status, parses |-> FALSE, data |-> EmptyObject]

\* Response.ok
ResponseOk(status) == status >= 200 /\ status <= 299

\* data.detail || data.error || `HTTP error ${response.status}`
ErrorMessage(data, status) ==
    IF TruthyStr(data.detail) THEN Val(data.detail)
    ELSE IF TruthyStr(data.error) THEN Val(data.error)
    ELSE "HTTP error " \o ToString(status)

NetworkError == ApiError("Network error - please check your connection", 0, None)

\* apiRequest: the catch block turns everything that is not an ApiError
\* (fetch rejecting, response.json() rejecting, reading a key of null) into
\* the network ApiError
ApiRequest(o) ==
    IF ~o.received THEN Throw(NetworkError)
    ELSE IF ~o.parses THEN Throw(NetworkError)
    ELSE IF ~ResponseOk(o.status)
         THEN IF o.data.isNull THEN Throw(NetworkError)
              ELSE Throw(ApiError(ErrorMessage(o.data, o.status), o.status,
                                  Some(o.data)))
    ELSE Return(o.data)

\* fetchProducts: Array.isArray(response) ? response
\*                                        : response.products || response
FetchProducts(o) ==
    LET r == ApiRequest(o) IN
    IF r.threw THEN r
    ELSE IF r.value.isNull THEN Throw(RuntimeError)
    ELSE IF r.value.isArray THEN r
    ELSE IF Has(r.value.products) THEN Return(ArrayPayload(Val(r.value.products)))
    ELSE r

\* fetchCategories: response.categories || response
FetchCategories(o) ==
    LET r == ApiRequest(o) IN
    IF r.threw THEN r
    ELSE IF r.value.isNull THEN Throw(RuntimeError)
    ELSE IF Has(r.value.categories) THEN Return(ArrayPayload(Val(r.value.categories)))
    ELSE r

\* getRecommendations: the response as apiRequest returned it
GetRecommendations(o) == ApiRequest(o)

\* healthCheck: a bare fetch of /health whose status is not looked at; it
\* rejects when fetch rejects or the body does not parse
HealthCheck(o) ==
    IF ~o.received \/ ~o.parses THEN Throw(RuntimeError)
    ELSE Return(o.data)

-----------------------------------------------------------------------------
(* What the backend may answer, per endpoint *)

\* slice(0, 50) in handleProductClick
HISTORY_LIMIT == 50
\* the catalog SpecHistory starts with holds more products than the history
CatalogSize == HISTORY_LIMIT + 2

ProductIds == 1..CatalogSize
CatalogOf(n) == [i \in 1..n |-> Product(i)]
\* the catalog the backend serves under Spec
ServedCatalog == <<Product(1), Product(2)>>
CategoryNames == <<"audio", "home">>
RecommendationList == <<Recommendation(1, 90), Recommendation(2, 40)>>

WithDetail(d) == [EmptyObject EXCEPT !.detail = Some(d)]
WithError(e) == [EmptyObject EXCEPT !.error = Some(e)]
WithRecommendations(rs) == [EmptyObject EXCEPT !.recommendations = Some(rs)]

HealthOutcomes ==
    { NoResponse, BadBody(502), JsonResponse(200, EmptyObject),
      JsonResponse(503, EmptyObject) }

ProductsOutcomes ==
    { NoResponse, BadBody(502),
      JsonResponse(200, ArrayPayload(ServedCatalog)),
      JsonResponse(200, [EmptyObject EXCEPT !.products = Some(ServedCatalog)]),
      JsonResponse(200, ArrayPayload(<<>>)),
      JsonResponse(500, WithDetail("Database unavailable")) }

CategoriesOutcomes ==
    { NoResponse,
      JsonResponse(200, ArrayPayload(CategoryNames)),
      JsonResponse(200, [EmptyObject EXCEPT !.categories = Some(CategoryNames)]),
      JsonResponse(404, WithDetail("Not Found")) }

RecommendationsOutcomes ==
    { NoResponse, BadBody(200), BadBody(500),
      JsonResponse(200, NullPayload),
      JsonResponse(200, WithRecommendations(RecommendationList)),
      JsonResponse(200, [WithRecommendations(RecommendationList)
                            EXCEPT !.error = Some("LLM quota exceeded")]),
      JsonResponse(200, WithRecommendations(<<>>)),
      JsonResponse(200, EmptyObject),
      JsonResponse(200, WithError("LLM quota exceeded")),
      JsonResponse(422, WithDetail("Invalid preferences")),
      JsonResponse(500, WithError("Internal error")),
      JsonResponse(500, EmptyObject) }

-----------------------------------------------------------------------------
(* components/Catalog.js *)

\* useState({...}) of Catalog, and resetFilters
DefaultFilters ==
    [category |-> "all", priceRange |-> [min |-> 0, max |-> 1000],
     sortBy |-> "rating", searchQuery |-> <<>>]

\* useState({}) of UserPreferences
NoErrors == [priceRange |-> None, categories |-> None]

-----------------------------------------------------------------------------
(* App.js: state after the first render and the synchronous start of the   *)
(* mount effect (loadInitialData up to its await healthCheck())            *)

DefaultPreferences ==
    [priceRange |-> "all", categories |-> <<>>, brands |-> <<>>,
     minRating |-> 0, lifestyleType |-> "", specificNeeds |-> ""]

Idle == [state |-> "idle", value |-> None]
Pending == [state |-> "pending", value |-> None]
Fulfilled(v) == [state |-> "fulfilled", value |-> Some(v)]
Rejected(e) == [state |-> "rejected", value |-> Some(e)]

NoApiCall == [pc |-> "none", http |-> NoResponse, result |-> None]

Init ==
    /\ products = <<>>
    /\ categories = <<>>
    /\ isInitialLoading = TRUE
    /\ userPreferences = DefaultPreferences
    /\ browsingHistory = <<>>
    /\ recommendations = <<>>
    /\ isLoadingRecommendations = FALSE
    /\ error = Null
    /\ activeView = "catalog"
    /\ apiStatus = "unknown"
    /\ loadPc = "health"
    /\ productsPromise = Idle
    /\ categoriesPromise = Idle
    /\ recInFlight = <<>>
    /\ sent = [health |-> 1, products |-> 0, categories |-> 0, recommendations |-> 0]
    /\ recClicks = 0
    /\ clock = 0
    /\ lastClick = [i \in ProductIds |-> 0]
    /\ lastOp = "mount"
    /\ apiCall = NoApiCall
    /\ filters = DefaultFilters
    /\ localPreferences = userPreferences
    /\ validationErrors = NoErrors
    /\ settled = [health |-> "pending", products |-> "none",
                  categories |-> "none"]

-----------------------------------------------------------------------------
(* App.js: loadInitialData *)

\* a load whose failure leaves the loading screen up
LoadFailsKeepsLoading(err) ==
    /\ error' = IF err.name = "ApiError" THEN "API Error: " \o err.message
                ELSE IF err.message # "" THEN err.message
                ELSE "Failed to load product data. Please refresh the page."
    /\ apiStatus' = "error"
    /\ isInitialLoading' = isInitialLoading
    /\ loadPc' = "done"

\* the catch and finally blocks of loadInitialData
LoadFails(err) ==
    /\ error' = IF err.name = "ApiError" THEN "API Error: " \o err.message
                ELSE IF err.message # "" THEN err.message
                ELSE "Failed to load product data. Please refresh the page."
    /\ apiStatus' = "error"
    /\ isInitialLoading' = FALSE
    /\ loadPc' = "done"

\* loadInitialData after Promise.all has resolved. (A body that is an object
\* without a products array has no length and would be stored as it is; the
\* outcomes enumerated above hold no such body.)
LoadContinues(productsData, categoriesData) ==
    IF productsData.isArray /\ Len(productsData.items) = 0
    THEN /\ LoadFails(JsError("No products available. Please check the backend service."))
         /\ lastOp' = "load:noProducts"
         /\ UNCHANGED <<products, categories>>
    ELSE /\ products' = productsData.items
         /\ categories' = categoriesData.items
         /\ isInitialLoading' = FALSE
         /\ loadPc' = "done"
         /\ lastOp' = "load:loaded"
         /\ UNCHANGED <<error, apiStatus>>

\* a load that asks for the products and the categories before it looks at
\* the outcome of the health check
HealthSettlesAfterFetch(o) ==
    /\ loadPc = "health"
    /\ sent' = [sent EXCEPT !.products = @ + 1, !.categories = @ + 1]
    /\ IF HealthCheck(o).threw
       THEN /\ LoadFails(JsError("Unable to connect to the recommendation service. Please check if the backend is running."))
            /\ lastOp' = "load:healthRejected"
            /\ UNCHANGED <<productsPromise, categoriesPromise>>
       ELSE /\ apiStatus' = "connected"
            /\ loadPc' = "fetch"
            /\ productsPromise' = Pending
            /\ categoriesPromise' = Pending
            /\ lastOp' = "load:healthResolved"
            /\ UNCHANGED <<error, isInitialLoading>>
    /\ settled' = IF HealthCheck(o).threw
                  THEN [settled EXCEPT !.health = "rejected"]
                  ELSE [health |-> "resolved", products |-> "pending",
                        categories |-> "pending"]
    /\ UNCHANGED <<products, categories, userPreferences, browsingHistory,
                   recommendations, isLoadingRecommendations, activeView,
                   recInFlight, recClicks, clock, lastClick, apiCall, filters,
                   formState>>

\* await healthCheck() settles
HealthSettles(o) ==
    /\ loadPc = "health"
    /\ IF HealthCheck(o).threw
       THEN /\ LoadFails(JsError("Unable to connect to the recommendation service. Please check if the backend is running."))
            /\ lastOp' = "load:healthRejected"
            /\ UNCHANGED <<productsPromise, categoriesPromise, sent>>
       ELSE /\ apiStatus' = "connected"
            /\ loadPc' = "fetch"
            /\ productsPromise' = Pending
            /\ categoriesPromise' = Pending
            /\ sent' = [sent EXCEPT !.products = @ + 1, !.categories = @ + 1]
            /\ lastOp' = "load:healthResolved"
            /\ UNCHANGED <<error, isInitialLoading>>
    /\ settled' = IF HealthCheck(o).threw
                  THEN [settled EXCEPT !.health = "rejected"]
                  ELSE [health |-> "resolved", products |-> "pending",
                        categories |-> "pending"]
    /\ UNCHANGED <<products, categories, userPreferences, browsingHistory,
                   recommendations, isLoadingRecommendations, activeView,
                   recInFlight, recClicks, clock, lastClick, apiCall, filters,
                   formState>>

\* fetchProducts() settles: a rejection rejects the Promise.all at once
ProductsSettle(o) ==
    /\ productsPromise.state = "pending"
    /\ LET r == FetchProducts(o) IN
       IF r.threw
       THEN /\ productsPromise' = Rejected(r.value)
            /\ LoadFails(r.value)
            /\ lastOp' = "load:productsRejected"
            /\ UNCHANGED <<products, categories>>
       ELSE /\ productsPromise' = Fulfilled(r.value)
            /\ IF categoriesPromise.state = "fulfilled"
               THEN LoadContinues(r.value, Val(categoriesPromise.value))
               ELSE /\ lastOp' = "load:productsResolved"
                    /\ UNCHANGED <<products, categories, error, apiStatus,
                                   isInitialLoading, loadPc>>
    /\ settled' = [settled EXCEPT !.products =
                      IF FetchProducts(o).threw THEN "rejected" ELSE "resolved"]
    /\ UNCHANGED <<userPreferences, browsingHistory, recommendations,
                   isLoadingRecommendations, activeView, categoriesPromise,
                   recInFlight, sent, recClicks, clock, lastClick, apiCall,
                   filters, formState>>

\* a catch that falls back to a placeholder list
CategoriesOrPlaceholder(r) ==
    IF r.threw THEN ArrayPayload(<<"all">>) ELSE r.value

\* .catch(() => []) on fetchCategories()
CategoriesOrEmpty(r) == IF r.threw THEN ArrayPayload(<<>>) ELSE r.value

\* fetchCategories().catch(() => []) settles: never a rejection
CategoriesSettle(o) ==
    /\ categoriesPromise.state = "pending"
    /\ LET r == FetchCategories(o)
           v == CategoriesOrEmpty(r)
       IN /\ categoriesPromise' = Fulfilled(v)
          /\ IF loadPc = "fetch" /\ productsPromise.state = "fulfilled"
             THEN LoadContinues(Val(productsPromise.value), v)
             ELSE /\ lastOp' = "load:categoriesResolved"
                  /\ UNCHANGED <<products, categories, error, apiStatus,
                                 isInitialLoading, loadPc>>
    /\ settled' = [settled EXCEPT !.categories =
                      IF FetchCategories(o).threw THEN "rejected" ELSE "resolved"]
    /\ UNCHANGED <<userPreferences, browsingHistory, recommendations,
                   isLoadingRecommendations, activeView, productsPromise,
                   recInFlight, sent, recClicks, clock, lastClick, apiCall,
                   filters, formState>>

-----------------------------------------------------------------------------
(* App.js: the handlers *)

Min(a, b) == IF a <= b THEN a ELSE b
Max(a, b) == IF a >= b THEN a ELSE b

\* a filter that keeps every id
FilterHistoryKeepsAll(prevHistory, productId) == prevHistory

\* prevHistory.filter(id => id !== productId)
FilterHistory(prevHistory, productId) ==
    SelectSeq(prevHistory, LAMBDA id : id # productId)

\* xs.slice(0, n)
Slice(xs, n) == SubSeq(xs, 1, Min(n, Len(xs)))

\* an updater without the slice
AddToHistoryUncapped(prevHistory, productId) ==
    <<productId>> \o FilterHistory(prevHistory, productId)

\* an updater that adds the id at the end and keeps the last entries
AddToHistoryAtEnd(prevHistory, productId) ==
    LET all == FilterHistory(prevHistory, productId) \o <<productId>>
    IN SubSeq(all, Max(1, Len(all) - HISTORY_LIMIT + 1), Len(all))

\* the updater handleProductClick passes to setBrowsingHistory
AddToHistory(prevHistory, productId) ==
    Slice(<<productId>> \o FilterHistory(prevHistory, productId), HISTORY_LIMIT)

\* the products Catalog offers for a click
ProductIdsShown == {products[i].id : i \in 1..Len(products)}

\* a click on a product card of the Catalog
HandleProductClick(productId) ==
    /\ ~isInitialLoading
    /\ activeView = "catalog"
    /\ productId \in ProductIdsShown
    /\ browsingHistory' = AddToHistory(browsingHistory, productId)
    /\ clock' = clock + 1
    /\ lastClick' = [lastClick EXCEPT ![productId] = clock + 1]
    /\ lastOp' = "handleProductClick"
    /\ UNCHANGED <<products, categories, isInitialLoading, userPreferences,
                   recommendations, isLoadingRecommendations, error,
                   activeView, apiStatus, asyncState, sent, recClicks, apiCall,
                   filters, settled, formState>>

\* the filters of the Catalog once the view has changed: the component
\* keeps its state while it stays mounted and starts from its defaults when
\* it is mounted again
FiltersAfterView(view) ==
    IF activeView = "catalog" /\ view = "catalog" THEN filters
    ELSE DefaultFilters

\* the state of UserPreferences once the view has changed: useState(preferences)
\* and useState({}) when it is mounted again
LocalPreferencesAfterView(view) ==
    IF activeView = "preferences" /\ view = "preferences" THEN localPreferences
    ELSE userPreferences
ValidationErrorsAfterView(view) ==
    IF activeView = "preferences" /\ view = "preferences" THEN validationErrors
    ELSE NoErrors

\* a validation that does not clamp the rating
ValidatePreferencesUnclamped(newPreferences) ==
    [key \in DOMAIN newPreferences |->
        CASE key = "categories" ->
                IF Has(newPreferences.categories)
                THEN Val(newPreferences.categories) ELSE <<>>
          [] key = "brands" ->
                IF Has(newPreferences.brands)
                THEN Val(newPreferences.brands) ELSE <<>>
          [] key = "minRating" ->
                IF Has(newPreferences.minRating)
                THEN Val(newPreferences.minRating) ELSE 0
          [] OTHER -> newPreferences[key]]

\* validatedPreferences of handlePreferencesChange
\* (...newPreferences keeps every other key of the object as it is)
ValidatePreferences(newPreferences) ==
    [key \in DOMAIN newPreferences |->
        CASE key = "categories" ->
                IF Has(newPreferences.categories)
                THEN Val(newPreferences.categories) ELSE <<>>
          [] key = "brands" ->
                IF Has(newPreferences.brands)
                THEN Val(newPreferences.brands) ELSE <<>>
          [] key = "minRating" ->
                Max(0, Min(5, IF Has(newPreferences.minRating)
                              THEN Val(newPreferences.minRating) ELSE 0))
          [] OTHER -> newPreferences[key]]

\* the preference objects the UserPreferences form hands over
PreferenceInputs ==
    { [priceRange |-> "all", categories |-> Some(<<>>), brands |-> Some(<<>>),
       minRating |-> Some(0), lifestyleType |-> "", specificNeeds |-> ""],
      [priceRange |-> "all", categories |-> Some(<<"audio">>), brands |-> Some(<<>>),
       minRating |-> Some(0), lifestyleType |-> "", specificNeeds |-> ""],
      [priceRange |-> "under-50", categories |-> None, brands |-> None,
       minRating |-> Some(7), lifestyleType |-> "", specificNeeds |-> ""] }

\* onPreferencesChange of the UserPreferences view
HandlePreferencesChange(newPreferences) ==
    /\ ~isInitialLoading
    /\ activeView = "preferences"
    /\ userPreferences' = ValidatePreferences(newPreferences)
    \* useEffect(() => setLocalPreferences(preferences), [preferences])
    /\ localPreferences' = userPreferences'
    /\ lastOp' = "handlePreferencesChange"
    /\ UNCHANGED <<products, categories, isInitialLoading, browsingHistory,
                   recommendations, isLoadingRecommendations, error,
                   activeView, apiStatus, asyncState, sent, recClicks, clock,
                   lastClick, apiCall, filters, validationErrors, settled>>

\* computedValues
HasPreferences ==
    \/ Len(userPreferences.categories) > 0
    \/ userPreferences.priceRange # "all"
    \/ Len(userPreferences.brands) > 0
    \/ userPreferences.minRating > 0
    \/ userPreferences.lifestyleType # ""
    \/ userPreferences.specificNeeds # ""
CanGetRecommendations == HasPreferences \/ Len(browsingHistory) > 0

\* the two buttons whose onClick is handleGetRecommendations
Buttons == {"quick-recommend-btn", "fab"}
ButtonRendered(button) ==
    /\ ~isInitialLoading
    /\ CanGetRecommendations
    /\ button = "quick-recommend-btn" => activeView # "recommendations"
\* a button that is never disabled
ButtonNeverDisabled(button) == FALSE

\* disabled={isLoadingRecommendations}
ButtonDisabled(button) == isLoadingRecommendations

\* a handler without the test
ValidationNeverFails == FALSE

\* the test that opens handleGetRecommendations
ValidationFails ==
    Len(browsingHistory) = 0 /\ Len(userPreferences.categories) = 0

\* a handler that does not raise the flag
LoadingFlagNotRaised == FALSE

\* setIsLoadingRecommendations(true)
LoadingFlagWhenSent == TRUE

\* a click on a Get AI Recommendations button: handleGetRecommendations up
\* to its await
ClickGetRecommendations(button) ==
    /\ ButtonRendered(button)
    /\ ~ButtonDisabled(button)
    /\ recClicks' = recClicks + 1
    /\ IF ValidationFails
       THEN /\ error' = "Please set some preferences or browse products before getting recommendations."
            /\ lastOp' = "handleGetRecommendations:invalid"
            /\ UNCHANGED <<isLoadingRecommendations, recInFlight, sent>>
       ELSE /\ isLoadingRecommendations' = LoadingFlagWhenSent
            /\ error' = Null
            /\ recInFlight' = Append(recInFlight,
                                     [preferences |-> userPreferences,
                                      browsing_history |-> browsingHistory])
            /\ sent' = [sent EXCEPT !.recommendations = @ + 1]
            /\ lastOp' = "handleGetRecommendations:sent"
    /\ UNCHANGED <<products, categories, isInitialLoading, userPreferences,
                   browsingHistory, recommendations, activeView, apiStatus,
                   loadPc, productsPromise, categoriesPromise, clock,
                   lastClick, apiCall, filters,
                   settled, formState>>

RemoveAt(xs, i) == SubSeq(xs, 1, i - 1) \o SubSeq(xs, i + 1, Len(xs))

\* a test that finds no response worth showing
HasRecommendationsNever(response) == FALSE

\* response.recommendations && response.recommendations.length > 0
HasRecommendations(response) ==
    Has(response.recommendations) /\ Len(Val(response.recommendations)) > 0

\* an else branch that does not read response.error
EmptyResultAlwaysGeneric(response) ==
    "No recommendations found. Try adjusting your preferences or browsing more products."

\* the message stored when the response holds no recommendations
EmptyResultMessage(response) ==
    IF TruthyStr(response.error)
    THEN "Recommendation Error: " \o Val(response.error)
    ELSE "No recommendations found. Try adjusting your preferences or browsing more products."

\* a catch block that stores no message
RejectionSwallowed(err) == Null

\* the message the catch block of handleGetRecommendations stores
RejectionMessage(err) ==
    IF err.name = "ApiError"
    THEN "Failed to get recommendations: " \o err.message
    ELSE "Unable to generate recommendations. Please try again."

\* a handler that sends the request again when it has settled
RequestRetried(i) ==
    /\ recInFlight' = recInFlight
    /\ sent' = [sent EXCEPT !.recommendations = @ + 1]

\* the awaited call is over: its request has left the network and nothing
\* sends it again
RequestCompletes(i) ==
    /\ recInFlight' = RemoveAt(recInFlight, i)
    /\ UNCHANGED sent

\* a finally block that leaves the flag set
LoadingFlagKept == TRUE

\* finally { setIsLoadingRecommendations(false) }
LoadingFlagAfterRequest == FALSE

\* handleGetRecommendations from its await on: the request in flight at
\* position i settles with outcome o
RecommendationsSettle(i, o) ==
    /\ i \in 1..Len(recInFlight)
    /\ RequestCompletes(i)
    /\ LET r == GetRecommendations(o) IN
       IF r.threw
       THEN /\ error' = RejectionMessage(r.value)
            /\ recommendations' = <<>>
            /\ lastOp' = "recommendations:rejected"
            /\ UNCHANGED activeView
       ELSE IF r.value.isNull
       THEN \* reading response.recommendations of null throws a TypeError
            /\ error' = RejectionMessage(RuntimeError)
            /\ recommendations' = <<>>
            /\ lastOp' = "recommendations:rejected"
            /\ UNCHANGED activeView
       ELSE IF HasRecommendations(r.value)
       THEN /\ recommendations' = Val(r.value.recommendations)
            /\ activeView' = "recommendations"
            /\ lastOp' = "recommendations:resolved"
            /\ UNCHANGED error
       ELSE /\ recommendations' = <<>>
            /\ error' = EmptyResultMessage(r.value)
            /\ lastOp' = "recommendations:empty"
            /\ UNCHANGED activeView
    /\ isLoadingRecommendations' = LoadingFlagAfterRequest
    /\ filters' = FiltersAfterView(activeView')
    /\ localPreferences' = LocalPreferencesAfterView(activeView')
    /\ validationErrors' = ValidationErrorsAfterView(activeView')
    /\ UNCHANGED <<products, categories, isInitialLoading, userPreferences,
                   browsingHistory, apiStatus, loadPc, productsPromise,
                   categoriesPromise, recClicks, clock, lastClick, apiCall,
                   settled>>

\* App.handleClearHistory
ClearedHistory == <<>>

\* a handler that does not wait for the answer
HistoryClearedUnasked(confirmed) == ClearedHistory

\* if (window.confirm(...)) onClearHistory()
HistoryAfterConfirm(confirmed) ==
    IF confirmed THEN ClearedHistory ELSE browsingHistory

\* BrowsingHistory.handleClearHistory: a click on a Clear History button,
\* answered in window.confirm
HandleClearHistory(confirmed) ==
    /\ ~isInitialLoading
    /\ activeView = "history"
    /\ Len(browsingHistory) # 0
    /\ browsingHistory' = HistoryAfterConfirm(confirmed)
    /\ lastOp' = IF confirmed THEN "handleClearHistory" ELSE "handleClearHistory:declined"
    /\ UNCHANGED <<products, categories, isInitialLoading, userPreferences,
                   recommendations, isLoadingRecommendations, error,
                   activeView, apiStatus, asyncState, sent, recClicks, clock,
                   lastClick, apiCall, filters,
                   settled, formState>>

\* the value clearError stores
ClearedError == Null

\* a clearError that also resets the results
ClearErrorAndResults ==
    /\ ~isInitialLoading
    /\ error # Null /\ error # ""
    /\ error' = ClearedError
    /\ recommendations' = <<>>
    /\ lastOp' = "clearError"
    /\ UNCHANGED <<products, categories, isInitialLoading, userPreferences,
                   browsingHistory, isLoadingRecommendations,
                   activeView, apiStatus, asyncState, sent, recClicks, clock,
                   lastClick, apiCall, filters,
                   settled, formState>>

\* the close button of the error banner, rendered when error is truthy
ClearError ==
    /\ ~isInitialLoading
    /\ error # Null /\ error # ""
    /\ error' = ClearedError
    /\ lastOp' = "clearError"
    /\ UNCHANGED <<products, categories, isInitialLoading, userPreferences,
                   browsingHistory, recommendations, isLoadingRecommendations,
                   activeView, apiStatus, asyncState, sent, recClicks, clock,
                   lastClick, apiCall, filters,
                   settled, formState>>

Views == {"catalog", "preferences", "history", "recommendations"}

\* a navigation button that also dismisses the banner
SetActiveViewClearsError(view) ==
    /\ ~isInitialLoading
    /\ activeView' = view
    /\ error' = Null
    /\ filters' = FiltersAfterView(view)
    /\ localPreferences' = LocalPreferencesAfterView(view)
    /\ validationErrors' = ValidationErrorsAfterView(view)
    /\ lastOp' = "setActiveView"
    /\ UNCHANGED <<products, categories, isInitialLoading, userPreferences,
                   browsingHistory, recommendations, isLoadingRecommendations,
                   apiStatus, asyncState, sent, recClicks, clock,
                   lastClick, apiCall, settled>>

\* a click on a navigation button
SetActiveView(view) ==
    /\ ~isInitialLoading
    /\ activeView' = view
    /\ filters' = FiltersAfterView(view)
    /\ localPreferences' = LocalPreferencesAfterView(view)
    /\ validationErrors' = ValidationErrorsAfterView(view)
    /\ lastOp' = "setActiveView"
    /\ UNCHANGED <<products, categories, isInitialLoading, userPreferences,
                   browsingHistory, recommendations, isLoadingRecommendations,
                   error, apiStatus, asyncState, sent, recClicks, clock,
                   lastClick, apiCall, settled>>

\* the views App renders: the loading screen replaces all of them
ViewsRendered ==
    IF isInitialLoading THEN {} ELSE {view \in Views : activeView = view}

-----------------------------------------------------------------------------
(* components/BrowsingHistory.js *)

Reverse(xs) == [i \in 1..Len(xs) |-> xs[Len(xs) + 1 - i]]

\* products.find(p => p.id === productId): the first match, or undefined
Find(productId) ==
    LET hits == SelectSeq(products, LAMBDA p : p.id = productId)
    IN IF Len(hits) = 0 THEN None ELSE Some(hits[1])

\* historyProducts: history.map(find).filter(Boolean).reverse()
HistoryProducts ==
    LET found == [i \in 1..Len(browsingHistory) |-> Find(browsingHistory[i])]
        kept == SelectSeq(found, Has)
    IN Reverse([i \in 1..Len(kept) |-> Val(kept[i])])

\* the view number of the item at position index (from 1) of the list:
\* historyProducts.length - index, index counted from 0
ViewNumber(index) == Len(HistoryProducts) - (index - 1)

-----------------------------------------------------------------------------
(* The application *)

Next ==
    \/ \E o \in HealthOutcomes : HealthSettles(o)
    \/ \E o \in ProductsOutcomes : ProductsSettle(o)
    \/ \E o \in CategoriesOutcomes : CategoriesSettle(o)
    \/ \E p \in ProductIdsShown : clock < MaxClicks /\ HandleProductClick(p)
    \/ \E n \in PreferenceInputs : HandlePreferencesChange(n)
    \/ \E b \in Buttons : recClicks < MaxRecClicks /\ ClickGetRecommendations(b)
    \/ \E i \in 1..Len(recInFlight), o \in RecommendationsOutcomes :
          RecommendationsSettle(i, o)
    \/ \E c \in BOOLEAN : HandleClearHistory(c)
    \/ ClearError
    \/ \E v \in Views : SetActiveView(v)

Spec == Init /\ [][Next]_vars

\* every backend call eventually resolves or rejects
BackendCallsSettle ==
    /\ WF_vars(\E o \in HealthOutcomes : HealthSettles(o))
    /\ WF_vars(\E o \in ProductsOutcomes : ProductsSettle(o))
    /\ WF_vars(\E o \in CategoriesOutcomes : CategoriesSettle(o))
    /\ WF_vars(\E i \in 1..Len(recInFlight), o \in RecommendationsOutcomes :
                  RecommendationsSettle(i, o))

\* the App with fewer product clicks, for the properties checked under
\* fairness
NextLive ==
    \/ \E o \in HealthOutcomes : HealthSettles(o)
    \/ \E o \in ProductsOutcomes : ProductsSettle(o)
    \/ \E o \in CategoriesOutcomes : CategoriesSettle(o)
    \/ \E p \in ProductIdsShown :
          clock < MaxLiveClicks /\ HandleProductClick(p)
    \/ \E n \in PreferenceInputs : HandlePreferencesChange(n)
    \/ \E b \in Buttons :
          recClicks < MaxLiveRecClicks /\ ClickGetRecommendations(b)
    \/ \E i \in 1..Len(recInFlight), o \in RecommendationsOutcomes :
          RecommendationsSettle(i, o)
    \/ \E c \in BOOLEAN : HandleClearHistory(c)
    \/ ClearError
    \/ \E v \in Views : SetActiveView(v)

SpecLive == Init /\ [][NextLive]_vars /\ BackendCallsSettle

-----------------------------------------------------------------------------
(* handlePreferencesChange on its own: the App after a successful initial  *)
(* load, called with every kind of object, also ones the form does not     *)
(* build itself: a missing list (None), a missing rating, ratings below 0  *)
(* and above 5.                                                            *)

AnyPreferences ==
    [priceRange : {"all", "under-50"},
     categories : {None, Some(<<>>), Some(<<"audio">>)},
     brands : {None, Some(<<>>), Some(<<"Ace">>)},
     minRating : {None, Some(-1), Some(0), Some(3), Some(5), Some(7)},
     lifestyleType : {"", "active"},
     specificNeeds : {""}]

InitPreferences ==
    /\ products = ServedCatalog
    /\ categories = CategoryNames
    /\ isInitialLoading = FALSE
    /\ userPreferences = DefaultPreferences
    /\ browsingHistory = <<>>
    /\ recommendations = <<>>
    /\ isLoadingRecommendations = FALSE
    /\ error = Null
    /\ activeView = "catalog"
    /\ apiStatus = "connected"
    /\ loadPc = "done"
    /\ productsPromise = Fulfilled(ArrayPayload(ServedCatalog))
    /\ categoriesPromise = Fulfilled(ArrayPayload(CategoryNames))
    /\ recInFlight = <<>>
    /\ sent = [health |-> 1, products |-> 1, categories |-> 1,
               recommendations |-> 0]
    /\ recClicks = 0
    /\ clock = 0
    /\ lastClick = [i \in ProductIds |-> 0]
    /\ lastOp = "load:loaded"
    /\ apiCall = NoApiCall
    /\ filters = DefaultFilters
    /\ localPreferences = userPreferences
    /\ validationErrors = NoErrors
    /\ settled = [health |-> "resolved", products |-> "resolved",
                  categories |-> "resolved"]

NextPreferences ==
    \/ \E n \in AnyPreferences : HandlePreferencesChange(n)
    \/ \E v \in Views : SetActiveView(v)

SpecPreferences == InitPreferences /\ [][NextPreferences]_vars

-----------------------------------------------------------------------------
(* The browsing history at its cap: the App after the initial load of a     *)
(* catalog of CatalogSize products has succeeded. The user clicks the       *)
(* products 1, 2, ... in turn until HISTORY_LIMIT clicks have been made,    *)
(* then any of a few products, and may clear the history at any time.       *)

InitHistory ==
    /\ products = CatalogOf(CatalogSize)
    /\ categories = CategoryNames
    /\ isInitialLoading = FALSE
    /\ userPreferences = DefaultPreferences
    /\ browsingHistory = <<>>
    /\ recommendations = <<>>
    /\ isLoadingRecommendations = FALSE
    /\ error = Null
    /\ activeView = "catalog"
    /\ apiStatus = "connected"
    /\ loadPc = "done"
    /\ productsPromise = Fulfilled(ArrayPayload(CatalogOf(CatalogSize)))
    /\ categoriesPromise = Fulfilled(ArrayPayload(CategoryNames))
    /\ recInFlight = <<>>
    /\ sent = [health |-> 1, products |-> 1, categories |-> 1, recommendations |-> 0]
    /\ recClicks = 0
    /\ clock = 0
    /\ lastClick = [i \in ProductIds |-> 0]
    /\ lastOp = "load:loaded"
    /\ apiCall = NoApiCall
    /\ filters = DefaultFilters
    /\ localPreferences = userPreferences
    /\ validationErrors = NoErrors
    /\ settled = [health |-> "resolved", products |-> "resolved",
                  categories |-> "resolved"]

ClickChoices ==
    IF clock < HISTORY_LIMIT THEN {clock + 1}
    ELSE {1, 2, HISTORY_LIMIT + 1, HISTORY_LIMIT + 2}

NextHistory ==
    \/ \E p \in ClickChoices :
          clock < HISTORY_LIMIT + MaxExtraClicks /\ HandleProductClick(p)
    \/ \E c \in BOOLEAN : HandleClearHistory(c)
    \/ \E v \in {"catalog", "history"} : SetActiveView(v)

SpecHistory == InitHistory /\ [][NextHistory]_vars

-----------------------------------------------------------------------------
(* components/Catalog.js: the filters and the list the Catalog displays.    *)
(* Strings the search reads are sequences of one-character strings.         *)

\* String.prototype.toLowerCase over the letters the catalog uses
ToLowerCase(str) ==
    LET lowerCase == ("A" :> "a") @@ ("H" :> "h") @@ ("R" :> "r")
                     @@ ("T" :> "t") @@ ("V" :> "v")
    IN [i \in 1..Len(str) |->
           IF str[i] \in DOMAIN lowerCase THEN lowerCase[str[i]] ELSE str[i]]

\* String.prototype.trim
RECURSIVE TrimStart(_)
TrimStart(str) ==
    IF str # <<>> /\ Head(str) = " " THEN TrimStart(Tail(str)) ELSE str
Trim(str) == Reverse(TrimStart(Reverse(TrimStart(str))))

\* String.prototype.includes
Includes(str, query) ==
    \E i \in 1..(Len(str) - Len(query) + 1) :
        SubSeq(str, i, i + Len(query) - 1) = query

\* the products GET /products serves under SpecCatalog: two share a
\* category, one costs more than the default maximum, one has no rating, no
\* inventory and no tags, two have the same rating
CatalogProduct(id, name, brand, category, price, rating, inventory, tags) ==
    [id |-> id, name |-> name, description |-> <<"h", "d">>,
     brand |-> brand, category |-> category, price |-> price,
     rating |-> rating, inventory |-> inventory, tags |-> tags]
Television ==
    CatalogProduct(1, <<"T", "V">>, <<"A", "c", "e">>, "home", 500,
                   Some(45), Some(3), Some(<<<<"h", "i">>>>))
Radio ==
    CatalogProduct(2, <<"R", "a", "d">>, <<"o", "k">>, "audio", 40,
                   None, None, None)
Amplifier ==
    CatalogProduct(3, <<"A", "m", "p">>, <<"o", "k">>, "audio", 1200,
                   Some(45), Some(0), Some(<<>>))
Headset ==
    CatalogProduct(4, <<"H", "s">>, <<"o", "k">>, "audio", 100,
                   Some(30), Some(7), Some(<<<<"t", "v">>>>))
DetailedCatalogs ==
    { <<Television, Radio, Amplifier, Headset>>,
      <<Headset, Amplifier, Radio, Television>> }

\* Catalog.js 13-16: the categories offered by the select, after 'all'
CategoryOptions ==
    {"all"} \cup {products[i].category : i \in 1..Len(products)}
SortOptions == {"rating", "price-low", "price-high", "name", "inventory"}
\* what can be typed into the search box
SearchQueries ==
    {<<>>, <<" ">>, <<"t", "v">>, <<"A">>, <<"a", " ">>, <<"h", "i">>}
\* what can be typed into a price input: text that parseInt rejects (None)
\* or a number
PriceInputs == {None, Some(-5), Some(0), Some(100), Some(1000), Some(2000)}

\* a category filter that keeps every product
FilterCategoryKeepsAll(list) == list

\* Category filter
FilterCategory(list) ==
    IF filters.category # "all"
    THEN SelectSeq(list, LAMBDA product : product.category = filters.category)
    ELSE list

\* Price range filter
InPriceRange(product) ==
    /\ product.price >= filters.priceRange.min
    /\ product.price <= filters.priceRange.max
FilterPrice(list) == SelectSeq(list, InPriceRange)

\* Search filter: the query is lower-cased but not trimmed
MatchesQuery(product) ==
    LET query == ToLowerCase(filters.searchQuery) IN
    \/ Includes(ToLowerCase(product.name), query)
    \/ Includes(ToLowerCase(product.description), query)
    \/ /\ Has(product.tags)
       /\ \E t \in 1..Len(Val(product.tags)) :
             Includes(ToLowerCase(Val(product.tags)[t]), query)
    \/ Includes(ToLowerCase(product.brand), query)
FilterSearch(list) ==
    IF Trim(filters.searchQuery) # <<>> THEN SelectSeq(list, MatchesQuery)
    ELSE list

\* x || 0 of an optional number
OrZero(x) == IF Has(x) THEN Val(x) ELSE 0

\* a.name.localeCompare(b.name) for names that differ in their letters:
\* letters compare alphabetically whatever their case
RECURSIVE CompareLetters(_, _)
CompareLetters(a, b) ==
    LET rank == ("a" :> 1) @@ ("d" :> 2) @@ ("h" :> 3) @@ ("m" :> 4)
                @@ ("p" :> 5) @@ ("r" :> 6) @@ ("s" :> 7) @@ ("t" :> 8)
                @@ ("v" :> 9)
    IN IF a = <<>> /\ b = <<>> THEN 0
       ELSE IF a = <<>> THEN -1
       ELSE IF b = <<>> THEN 1
       ELSE IF rank[Head(a)] # rank[Head(b)]
            THEN rank[Head(a)] - rank[Head(b)]
       ELSE CompareLetters(Tail(a), Tail(b))
LocaleCompare(a, b) == CompareLetters(ToLowerCase(a), ToLowerCase(b))

\* a comparator that orders nothing
CompareProductsEqual(a, b) == 0

\* the comparator of filtered.sort
CompareProducts(a, b) ==
    CASE filters.sortBy = "price-low" -> a.price - b.price
      [] filters.sortBy = "price-high" -> b.price - a.price
      [] filters.sortBy = "rating" -> OrZero(b.rating) - OrZero(a.rating)
      [] filters.sortBy = "name" -> LocaleCompare(a.name, b.name)
      [] filters.sortBy = "inventory" ->
            OrZero(b.inventory) - OrZero(a.inventory)
      [] OTHER -> 0

\* Array.prototype.sort is stable: an element goes after every element that
\* does not compare greater than it
RECURSIVE InsertSorted(_, _)
InsertSorted(sorted, x) ==
    IF sorted = <<>> THEN <<x>>
    ELSE IF CompareProducts(Head(sorted), x) <= 0
         THEN <<Head(sorted)>> \o InsertSorted(Tail(sorted), x)
    ELSE <<x>> \o sorted
RECURSIVE SortProducts(_)
SortProducts(list) ==
    IF list = <<>> THEN <<>>
    ELSE InsertSorted(SortProducts(SubSeq(list, 1, Len(list) - 1)),
                      list[Len(list)])

\* filteredProducts
FilteredProducts ==
    SortProducts(FilterSearch(FilterPrice(FilterCategory(products))))

\* Math.max(0, parseInt(value) || 0)
ParsePrice(value) == Max(0, OrZero(value))

\* handleFilterChange(filterType, value)
HandleFilterChange(filterType, value) ==
    /\ ~isInitialLoading
    /\ activeView = "catalog"
    /\ filters' = [filters EXCEPT ![filterType] = value]
    /\ lastOp' = "handleFilterChange"
    /\ UNCHANGED <<appState, asyncState, sent, recClicks, clock, lastClick,
                   apiCall, settled, formState>>

\* handlePriceRangeChange(field, value)
HandlePriceRangeChange(field, value) ==
    /\ ~isInitialLoading
    /\ activeView = "catalog"
    /\ filters' = [filters EXCEPT !.priceRange[field] = ParsePrice(value)]
    /\ lastOp' = "handlePriceRangeChange"
    /\ UNCHANGED <<appState, asyncState, sent, recClicks, clock, lastClick,
                   apiCall, settled, formState>>

\* resetFilters
ResetFilters ==
    /\ ~isInitialLoading
    /\ activeView = "catalog"
    /\ filters' = DefaultFilters
    /\ lastOp' = "resetFilters"
    /\ UNCHANGED <<appState, asyncState, sent, recClicks, clock, lastClick,
                   apiCall, settled, formState>>

(* The Catalog on its own: the initial load has served one of the detailed *)
(* catalogs and the user works the filter controls.                        *)
InitCatalog ==
    /\ products \in DetailedCatalogs
    /\ categories = CategoryNames
    /\ isInitialLoading = FALSE
    /\ userPreferences = DefaultPreferences
    /\ browsingHistory = <<>>
    /\ recommendations = <<>>
    /\ isLoadingRecommendations = FALSE
    /\ error = Null
    /\ activeView = "catalog"
    /\ apiStatus = "connected"
    /\ loadPc = "done"
    /\ productsPromise = Fulfilled(ArrayPayload(products))
    /\ categoriesPromise = Fulfilled(ArrayPayload(CategoryNames))
    /\ recInFlight = <<>>
    /\ sent = [health |-> 1, products |-> 1, categories |-> 1,
               recommendations |-> 0]
    /\ recClicks = 0
    /\ clock = 0
    /\ lastClick = [i \in ProductIds |-> 0]
    /\ lastOp = "load:loaded"
    /\ apiCall = NoApiCall
    /\ filters = DefaultFilters
    /\ localPreferences = userPreferences
    /\ validationErrors = NoErrors
    /\ settled = [health |-> "resolved", products |-> "resolved",
                  categories |-> "resolved"]

NextCatalog ==
    \/ \E c \in CategoryOptions : HandleFilterChange("category", c)
    \/ \E o \in SortOptions : HandleFilterChange("sortBy", o)
    \/ \E q \in SearchQueries : HandleFilterChange("searchQuery", q)
    \/ \E f \in {"min", "max"}, v \in PriceInputs : HandlePriceRangeChange(f, v)
    \/ ResetFilters

SpecCatalog == InitCatalog /\ [][NextCatalog]_vars

-----------------------------------------------------------------------------
(* UserPreferences: the form of the preferences view. A preferences object *)
(* holds lists for categories and brands and a number for minRating; its   *)
(* customPriceRange is None (undefined, or no such key) or Some range      *)
(* whose min and max are each None or Some number.                         *)

\* prefs.categories.length > 5
CategoryLimit == 5
BrandName == <<"A", "c", "e">>
\* the products prop under SpecForm: one category more than the limit
FormCatalog ==
    [i \in 1..(CategoryLimit + 1) |->
        CatalogProduct(i, <<"T", "V">>, BrandName, "category-" \o ToString(i), 100,
                       Some(45), Some(3), None)]

\* prefs.customPriceRange
CustomPriceRange(prefs) ==
    IF "customPriceRange" \in DOMAIN prefs THEN prefs.customPriceRange
    ELSE None

\* { ...obj, [key]: value }
Assign(obj, key, value) ==
    [k \in DOMAIN obj \cup {key} |-> IF k = key THEN value ELSE obj[k]]

\* a validation that reports no price range error
validatePreferencesCategoriesOnly(prefs) ==
    [priceRange |-> None,
     categories |->
        IF Len(prefs.categories) > CategoryLimit
        THEN Some("Please select no more than 5 categories for better recommendations")
        ELSE None]

\* validatePreferences: a comparison with undefined is false
validatePreferences(prefs) ==
    LET range == CustomPriceRange(prefs)
        \* prefs.customPriceRange?.min and ?.max
        min == IF Has(range) THEN Val(range).min ELSE None
        max == IF Has(range) THEN Val(range).max ELSE None
        notLess == Has(min) /\ Has(max) /\ Val(min) >= Val(max)
        negative == Has(min) /\ Val(min) < 0
    IN [priceRange |->
           IF prefs.priceRange = "custom" /\ negative
           THEN Some("Prices cannot be negative")
           ELSE IF prefs.priceRange = "custom" /\ notLess
           THEN Some("Minimum price must be less than maximum price")
           ELSE None,
        categories |->
           IF Len(prefs.categories) > CategoryLimit
           THEN Some("Please select no more than 5 categories for better recommendations")
           ELSE None]

\* Object.keys(errors).length === 0 || !errors.priceRange
NoCriticalErrors(errors) == errors = NoErrors \/ ~Has(errors.priceRange)

\* the object as handlePreferencesChange reads it: every key it looks for is
\* present
AsPassed(prefs) ==
    [k \in DOMAIN prefs |->
        IF k \in {"categories", "brands", "minRating"} THEN Some(prefs[k])
        ELSE prefs[k]]

\* updatePreferences(newPrefs), with handlePreferencesChange of App and the
\* effect that copies the preferences prop into localPreferences
UpdatePreferences(newPrefs) ==
    /\ ~isInitialLoading
    /\ activeView = "preferences"
    /\ validationErrors' = validatePreferences(newPrefs)
    /\ IF NoCriticalErrors(validatePreferences(newPrefs))
       THEN /\ userPreferences' = ValidatePreferences(AsPassed(newPrefs))
            /\ localPreferences' = userPreferences'
            /\ lastOp' = "updatePreferences"
       ELSE /\ lastOp' = "updatePreferences:rejected"
            /\ UNCHANGED <<userPreferences, localPreferences>>
    /\ UNCHANGED <<products, categories, isInitialLoading, browsingHistory,
                   recommendations, isLoadingRecommendations, error,
                   activeView, apiStatus, asyncState, sent, recClicks, clock,
                   lastClick, apiCall, filters, settled>>

Contains(list, x) == \E i \in 1..Len(list) : list[i] = x
Toggle(list, x, isChecked) ==
    IF isChecked THEN Append(list, x)
    ELSE SelectSeq(list, LAMBDA y : y # x)

\* the object handleCategoryChange(category, isChecked) builds
WithCategory(category, isChecked) ==
    Assign(localPreferences, "categories",
           Toggle(localPreferences.categories, category, isChecked))
HandleCategoryChange(category, isChecked) ==
    UpdatePreferences(WithCategory(category, isChecked))

\* the object handleBrandChange(brand, isChecked) builds
WithBrand(brand, isChecked) ==
    Assign(localPreferences, "brands",
           Toggle(localPreferences.brands, brand, isChecked))
HandleBrandChange(brand, isChecked) ==
    UpdatePreferences(WithBrand(brand, isChecked))

\* { ...localPreferences.customPriceRange, ...value }
MergeRange(range, value) ==
    LET base == IF Has(range) THEN Val(range) ELSE [min |-> None, max |-> None]
    IN [min |-> IF Has(value.min) THEN value.min ELSE base.min,
        max |-> IF Has(value.max) THEN value.max ELSE base.max]

\* the objects handlePriceRangeChange(type, value) of UserPreferences builds
WithPreset(value) ==
    Assign(Assign(localPreferences, "priceRange", value),
           "customPriceRange",
           IF value = "custom"
           THEN Some([min |-> Some(0), max |-> Some(1000)])
           ELSE None)
WithCustomRange(value) ==
    Assign(Assign(localPreferences, "priceRange", "custom"),
           "customPriceRange",
           Some(MergeRange(CustomPriceRange(localPreferences), value)))
\* the custom inputs are rendered while the price range is 'custom'
HandlePriceRangePreference(type, value) ==
    IF type = "preset" THEN UpdatePreferences(WithPreset(value))
    ELSE /\ localPreferences.priceRange = "custom"
         /\ UpdatePreferences(WithCustomRange(value))

\* handleSimpleChange(field, value)
WithField(field, value) == Assign(localPreferences, field, value)
HandleSimpleChange(field, value) == UpdatePreferences(WithField(field, value))

\* clearPreferences
ClearedPreferences ==
    [priceRange |-> "all", customPriceRange |-> None, categories |-> <<>>,
     brands |-> <<>>, minRating |-> 0, lifestyleType |-> "",
     specificNeeds |-> "", additionalNotes |-> ""]
ClearPreferences == UpdatePreferences(ClearedPreferences)

\* the user checks the categories in the order listed and unchecks the one
\* checked last
CategoryClicks ==
    LET n == Len(localPreferences.categories) IN
    (IF n < Len(products) THEN {<<products[n + 1].category, TRUE>>} ELSE {})
    \cup (IF n > 0 THEN {<<localPreferences.categories[n], FALSE>>} ELSE {})
\* what the custom price inputs hand over, parseInt(e.target.value) || 0 and
\* || 1000, for text parseInt rejects or 0 (None) or a number typed
CustomRangeInputs ==
    LET typed == {None, Some(-5), Some(500), Some(2000)} IN
    {[min |-> Some(OrZero(v)), max |-> None] : v \in typed}
    \cup {[min |-> None, max |-> Some(IF Has(v) THEN Val(v) ELSE 1000)] :
            v \in typed}

PresetsOffered == {"all", "budget", "custom"}
RatingsOffered == {0, 3}

InitForm ==
    /\ products = FormCatalog
    /\ categories = CategoryNames
    /\ isInitialLoading = FALSE
    /\ userPreferences = DefaultPreferences
    /\ browsingHistory = <<>>
    /\ recommendations = <<>>
    /\ isLoadingRecommendations = FALSE
    /\ error = Null
    /\ activeView = "preferences"
    /\ apiStatus = "connected"
    /\ loadPc = "done"
    /\ productsPromise = Fulfilled(ArrayPayload(FormCatalog))
    /\ categoriesPromise = Fulfilled(ArrayPayload(CategoryNames))
    /\ recInFlight = <<>>
    /\ sent = [health |-> 1, products |-> 1, categories |-> 1,
               recommendations |-> 0]
    /\ recClicks = 0
    /\ clock = 0
    /\ lastClick = [i \in ProductIds |-> 0]
    /\ lastOp = "setActiveView"
    /\ apiCall = NoApiCall
    /\ filters = DefaultFilters
    /\ localPreferences = userPreferences
    /\ validationErrors = NoErrors
    /\ settled = [health |-> "resolved", products |-> "resolved",
                  categories |-> "resolved"]

NextForm ==
    \/ \E c \in CategoryClicks : HandleCategoryChange(c[1], c[2])
    \/ HandleBrandChange(BrandName,
                         ~Contains(localPreferences.brands, BrandName))
    \/ \E v \in PresetsOffered : HandlePriceRangePreference("preset", v)
    \/ \E v \in CustomRangeInputs : HandlePriceRangePreference("custom", v)
    \/ \E r \in RatingsOffered : HandleSimpleChange("minRating", r)
    \/ ClearPreferences
    \/ \E v \in {"catalog", "preferences"} : SetActiveView(v)

SpecForm == InitForm /\ [][NextForm]_vars

-----------------------------------------------------------------------------
(* Recommendations (second component of components/BrowsingHistory.js).    *)
(* The prop is a JavaScript value: null, an object or an array.            *)

\* a.confidence_score || 0: a recommendation may come without the key
ScoreOf(recommendation) ==
    IF "confidence_score" \in DOMAIN recommendation
    THEN recommendation.confidence_score
    ELSE 0

\* a comparator that puts the lowest score first
CompareScoresAscending(a, b) == ScoreOf(a) - ScoreOf(b)

\* the comparator of sortedRecommendations
CompareScores(a, b) == ScoreOf(b) - ScoreOf(a)

\* [...recommendations].sort(...): a stable sort of a copy
RECURSIVE InsertByScore(_, _)
InsertByScore(sorted, x) ==
    IF sorted = <<>> THEN <<x>>
    ELSE IF CompareScores(Head(sorted), x) <= 0
         THEN <<Head(sorted)>> \o InsertByScore(Tail(sorted), x)
    ELSE <<x>> \o sorted
RECURSIVE SortByScore(_)
SortByScore(list) ==
    IF list = <<>> THEN <<>>
    ELSE InsertByScore(SortByScore(SubSeq(list, 1, Len(list) - 1)),
                       list[Len(list)])

\* sortedRecommendations
SortedRecommendations(prop) ==
    IF prop.isNull \/ ~prop.isArray THEN <<>> ELSE SortByScore(prop.items)

\* #{index + 1} of the card at position index (from 0) of the grid
RankBadge(index) == index + 1

\* the recommendations the backend may send under SpecRecommendations: two
\* with the same score and one without a score
RecommendationsSent ==
    { Recommendation(1, 90), Recommendation(2, 40), Recommendation(3, 40),
      [product |-> Product(4)] }
\* the longest list explored
MaxRecommendations == 3
RecommendationLists ==
    UNION { [1..n -> RecommendationsSent] : n \in 0..MaxRecommendations }

(* The panel on its own: the App after a successful load holds any of the  *)
(* lists as its recommendations and the user moves between the views.      *)
InitRecommendations ==
    /\ products = ServedCatalog
    /\ categories = CategoryNames
    /\ isInitialLoading = FALSE
    /\ userPreferences = DefaultPreferences
    /\ browsingHistory = <<1>>
    /\ recommendations \in RecommendationLists
    /\ isLoadingRecommendations = FALSE
    /\ error = Null
    /\ activeView = "recommendations"
    /\ apiStatus = "connected"
    /\ loadPc = "done"
    /\ productsPromise = Fulfilled(ArrayPayload(ServedCatalog))
    /\ categoriesPromise = Fulfilled(ArrayPayload(CategoryNames))
    /\ recInFlight = <<>>
    /\ sent = [health |-> 1, products |-> 1, categories |-> 1,
               recommendations |-> 1]
    /\ recClicks = 1
    /\ clock = 1
    /\ lastClick = [i \in ProductIds |-> IF i = 1 THEN 1 ELSE 0]
    /\ lastOp = "recommendations:resolved"
    /\ apiCall = NoApiCall
    /\ filters = DefaultFilters
    /\ localPreferences = userPreferences
    /\ validationErrors = NoErrors
    /\ settled = [health |-> "resolved", products |-> "resolved",
                  categories |-> "resolved"]

NextRecommendations == \E v \in Views : SetActiveView(v)

SpecRecommendations == InitRecommendations /\ [][NextRecommendations]_vars

-----------------------------------------------------------------------------
(* apiRequest as a function of what the network does *)

Statuses == {200, 201, 204, 301, 400, 404, 422, 500, 503}
OptionalStrings(s) == {None, Some(""), Some(s)}
Payloads ==
    { [EmptyObject EXCEPT !.detail = d, !.error = e] :
        d \in OptionalStrings("Not Found"), e \in OptionalStrings("Internal error") }
    \cup { NullPayload, ArrayPayload(<<>>), ArrayPayload(ServedCatalog),
           WithRecommendations(RecommendationList) }
HttpOutcomes ==
    {NoResponse} \cup {BadBody(s) : s \in Statuses}
    \cup {JsonResponse(s, d) : s \in Statuses, d \in Payloads}

InitApi == Init

\* a caller awaits apiRequest(endpoint, options)
ApiRequestCalled(o) ==
    /\ apiCall.pc = "none"
    /\ apiCall' = [pc |-> "called", http |-> o, result |-> None]
    /\ UNCHANGED <<appState, asyncState, filters, sent, recClicks, clock,
                   lastClick, lastOp, settled, formState>>

\* the promise apiRequest returned settles
ApiRequestSettles ==
    /\ apiCall.pc = "called"
    /\ apiCall' = [apiCall EXCEPT !.pc = "settled",
                                  !.result = Some(ApiRequest(apiCall.http))]
    /\ UNCHANGED <<appState, asyncState, filters, sent, recClicks, clock,
                   lastClick, lastOp, settled, formState>>

NextApi ==
    \/ \E o \in HttpOutcomes : ApiRequestCalled(o)
    \/ ApiRequestSettles

SpecApi == InitApi /\ [][NextApi]_vars

-----------------------------------------------------------------------------
(* Properties of the browsing history *)

IdsOf(xs) == RangeOf(xs)
PositionIn(xs, x) == CHOOSE i \in 1..Len(xs) : xs[i] = x
\* the product of the latest click, when the step just taken was a click
ClickedId == CHOOSE p \in ProductIds : lastClick'[p] = clock'
ProductClicked == clock' = clock + 1

\* C1: in every reachable state, whatever products were clicked and however
\* often the history was cleared, browsingHistory holds at most 50 ids.
C1_HistoryAtMost50 == Len(browsingHistory) <= 50

\* C1 witness: a 51st distinct product was clicked while the history held 50
\* ids, and it still holds 50.
C1_Witness ==
    /\ Len(browsingHistory) = 50
    /\ browsingHistory[1] = 51
    /\ Cardinality({p \in ProductIds : lastClick[p] > 0}) = 51

MostRecentFirst ==
    \A i, j \in 1..Len(browsingHistory) :
        i < j => lastClick[browsingHistory[i]] > lastClick[browsingHistory[j]]

ClickKeepsOrder ==
    LET p == ClickedId
        dropped == IdsOf(browsingHistory) \ IdsOf(browsingHistory')
    IN /\ browsingHistory'[1] = p
       /\ \A i \in 2..Len(browsingHistory') :
             browsingHistory'[i] \in IdsOf(browsingHistory) \ {p}
       \* (the order of neighbours gives the order of every pair)
       /\ \A i \in 2..Len(browsingHistory') - 1 :
             PositionIn(browsingHistory, browsingHistory'[i])
               < PositionIn(browsingHistory, browsingHistory'[i + 1])
       /\ dropped # {} =>
             /\ Len(browsingHistory) = 50
             /\ p \notin IdsOf(browsingHistory)
             /\ dropped = {browsingHistory[Len(browsingHistory)]}
             /\ \A q \in IdsOf(browsingHistory), d \in dropped :
                   lastClick[d] <= lastClick[q]

\* C2: browsingHistory is ordered most-recent-first. In every reachable
\* state an id at a lower index was last clicked later than any id at a
\* higher index; a click on p puts p at index 0 and keeps the relative order
\* of the other ids; an id leaves only when the history held 50 ids and p
\* was new, and then it is the last element, the least recently clicked.
C2_MostRecentFirst ==
    /\ []MostRecentFirst
    /\ [][ProductClicked => ClickKeepsOrder]_vars

\* C2 witness: the cap was exceeded: 51 products have been clicked, the
\* latest is at the front and the first one clicked has left the history.
C2_Witness ==
    /\ clock = 51
    /\ lastClick[browsingHistory[1]] = 51
    /\ Len(browsingHistory) = 50
    /\ lastClick[1] = 1
    /\ 1 \notin IdsOf(browsingHistory)

NoDuplicates ==
    \A i, j \in 1..Len(browsingHistory) :
        browsingHistory[i] = browsingHistory[j] => i = j

\* C3: browsingHistory never holds an id twice, and a click on a product
\* that is already in the history moves it to the front and leaves the
\* length of the history unchanged.
C3_NoDuplicates ==
    /\ []NoDuplicates
    /\ [][(ProductClicked /\ ClickedId \in IdsOf(browsingHistory)) =>
            /\ browsingHistory'[1] = ClickedId
            /\ Len(browsingHistory') = Len(browsingHistory)
            /\ IdsOf(browsingHistory') = IdsOf(browsingHistory)]_vars

\* C3 witness: with 50 ids in the history, product 2 (the second one
\* clicked) was clicked again: it is at the front, and product 1 is still
\* the last of 50.
C3_Witness ==
    /\ clock = 51
    /\ lastClick[2] = 51
    /\ browsingHistory[1] = 2
    /\ Len(browsingHistory) = 50
    /\ browsingHistory[50] = 1

HistoryIdsByRecency(i, j) ==
    lastClick[HistoryProducts[i].id] > lastClick[HistoryProducts[j].id]

\* C4 (as claimed): in the BrowsingHistory view the first item of
\* historyProducts is the most recently clicked product, the last item the
\* least recently clicked one, and the view number shown on an item grows
\* with how recently the item was clicked.
C4_MostRecentShownFirst ==
    activeView = "history" =>
        \A i, j \in 1..Len(HistoryProducts) :
            i < j => /\ HistoryIdsByRecency(i, j)
                     /\ ViewNumber(i) > ViewNumber(j)

-----------------------------------------------------------------------------
(* Properties of the requests *)

\* C5: at most one POST /recommendations request is outstanding at any
\* time: while a request is in flight isLoadingRecommendations is true and
\* both Get AI Recommendations buttons are disabled, so no click can start
\* a second request before the first has completed.
C5_OneRequestOutstanding ==
    /\ Len(recInFlight) <= 1
    /\ Len(recInFlight) = 1 =>
          /\ isLoadingRecommendations
          /\ \A b \in Buttons : ButtonDisabled(b)

\* C5 witness: a second request is in flight after the first one has
\* completed.
C5_Witness ==
    /\ Len(recInFlight) = 1
    /\ sent.recommendations = 2
    /\ isLoadingRecommendations

\* the call of apiRequest has settled by throwing
ApiCallThrew == apiCall.pc = "settled" /\ Val(apiCall.result).threw
ApiCallReturned == apiCall.pc = "settled" /\ ~Val(apiCall.result).threw
ThrownError == Val(apiCall.result).value
IsNetworkError(e) ==
    /\ e.name = "ApiError"
    /\ e.status = 0
    /\ e.data = None
    /\ e.message = "Network error - please check your connection"
Non2xx(status) == status < 200 \/ status > 299

\* C6 (as claimed): apiRequest classifies every failure as one of two
\* kinds. When a response with a non-2xx status was received it throws an
\* ApiError whose status is that status and whose data is the payload; it
\* throws the network error (status 0, null data) only when no response was
\* received.
C6_TwoKindsOfFailure ==
    ApiCallThrew =>
        /\ ThrownError.name = "ApiError"
        /\ (apiCall.http.received /\ Non2xx(apiCall.http.status)) =>
              /\ ThrownError.status = apiCall.http.status
              /\ apiCall.http.parses => ThrownError.data = Some(apiCall.http.data)
        /\ IsNetworkError(ThrownError) => ~apiCall.http.received

\* the message the claim gives for a payload: detail when present, otherwise
\* error when present, otherwise 'HTTP error <status>'
ClaimedMessage(data, status) ==
    IF Has(data.detail) THEN Val(data.detail)
    ELSE IF Has(data.error) THEN Val(data.error)
    ELSE "HTTP error " \o ToString(status)

\* C7 (as claimed): for a non-2xx response the message of the ApiError
\* thrown is the payload's detail field when it is present, otherwise its
\* error field when it is present, otherwise 'HTTP error <status>'; a 2xx
\* response never produces an ApiError, and its parsed body is returned
\* unchanged.
C7_MessageOfApiError ==
    (apiCall.pc = "settled" /\ apiCall.http.received) =>
        IF Non2xx(apiCall.http.status)
        THEN /\ ApiCallThrew
             /\ (apiCall.http.parses /\ ~apiCall.http.data.isNull) =>
                   ThrownError.message
                     = ClaimedMessage(apiCall.http.data, apiCall.http.status)
        ELSE /\ ApiCallReturned
             /\ apiCall.http.parses =>
                   Val(apiCall.result).value = apiCall.http.data

-----------------------------------------------------------------------------
(* Properties of the error banner *)

\* no response, or a response apiRequest turns into an ApiError
RequestFailed(o) == ~o.received \/ ~o.parses \/ Non2xx(o.status)
\* a 2xx response without recommendations
EmptyRecommendations(o) ==
    /\ ~RequestFailed(o)
    /\ \/ o.data.isNull
       \/ ~Has(o.data.recommendations)
       \/ Val(o.data.recommendations) = <<>>
\* a 2xx response that carries an error field
CarriesErrorField(o) ==
    ~RequestFailed(o) /\ ~o.data.isNull /\ TruthyStr(o.data.error)

\* the step completes the initial load with a failure: the health check
\* rejected, the product request failed, or the product list is empty
LoadCompletesWithFailure ==
    /\ isInitialLoading /\ ~isInitialLoading'
    /\ \/ \E o \in HealthOutcomes :
             HealthSettles(o) /\ (~o.received \/ ~o.parses)
       \/ \E o \in ProductsOutcomes : ProductsSettle(o) /\ RequestFailed(o)
       \/ /\ productsPromise'.state = "fulfilled"
          /\ Val(productsPromise'.value).items = <<>>

\* the step completes a recommendations request whose outcome satisfies
\* Failure
RecommendationsCompleteWith(Failure(_)) ==
    /\ isLoadingRecommendations /\ ~isLoadingRecommendations'
    /\ \E i \in 1..Len(recInFlight), o \in RecommendationsOutcomes :
          RecommendationsSettle(i, o) /\ Failure(o)

ClaimedFailure(o) ==
    RequestFailed(o) \/ EmptyRecommendations(o) \/ CarriesErrorField(o)
ActualFailure(o) == RequestFailed(o) \/ EmptyRecommendations(o)

\* C8 (as claimed): whenever the initial load or a recommendations request
\* completes with a failure (health check rejected, API error, network
\* error, empty product list, empty recommendation list or a response
\* carrying an error field), error is non-null at the moment the loading
\* flag returns to false.
C8_EveryFailureSurfaces ==
    [][(LoadCompletesWithFailure \/ RecommendationsCompleteWith(ClaimedFailure))
         => error' # Null]_vars

\* C8 (amended): the same, where a response carrying an error field counts
\* as a failure only when its recommendation list is empty or missing.
C8_FailureSurfaces ==
    [][(LoadCompletesWithFailure \/ RecommendationsCompleteWith(ActualFailure))
         => error' # Null]_vars

\* C8 witness: the initial load has failed, and a recommendations request
\* made afterwards has failed with an API error that is now in the banner.
C8_Witness ==
    /\ apiStatus = "error"
    /\ lastOp = "recommendations:rejected"
    /\ ~isLoadingRecommendations
    /\ error = "Failed to get recommendations: Invalid preferences"

FailureOps ==
    {"load:healthRejected", "load:productsRejected", "load:noProducts",
     "handleGetRecommendations:invalid", "recommendations:rejected",
     "recommendations:empty"}

\* C9: clearError sets error to null and leaves products, categories,
\* userPreferences, browsingHistory, recommendations, activeView, apiStatus
\* and both loading flags unchanged; and error, once null, stays null until
\* a later operation fails.
C9_ClearErrorOnlyClearsError ==
    /\ [][lastOp' = "clearError" =>
            /\ error' = Null
            /\ UNCHANGED <<products, categories, userPreferences,
                           browsingHistory, recommendations, activeView,
                           apiStatus, isInitialLoading,
                           isLoadingRecommendations>>]_vars
    /\ [][(error = Null /\ error' # Null) => lastOp' \in FailureOps]_vars

\* C9 witness: the banner was dismissed while results, history and
\* preferences were there.
C9_Witness ==
    /\ lastOp = "clearError"
    /\ error = Null
    /\ recommendations # <<>>
    /\ browsingHistory # <<>>
    /\ userPreferences # DefaultPreferences

\* C10: nothing is re-issued. /health, /products and /categories are each
\* requested at most once, and the number of POST /recommendations requests
\* sent never exceeds the number of clicks on a Get AI Recommendations
\* button.
C10_NoRetry ==
    /\ sent.health <= 1
    /\ sent.products <= 1
    /\ sent.categories <= 1
    /\ sent.recommendations <= recClicks

\* C10 witness: the product request of the initial load has failed and a
\* recommendations request has failed, and each was sent once.
C10_Witness ==
    /\ productsPromise.state = "rejected"
    /\ lastOp = "recommendations:rejected"
    /\ recInFlight = <<>>
    /\ sent = [health |-> 1, products |-> 1, categories |-> 1, recommendations |-> 1]

-----------------------------------------------------------------------------
(* Properties of the views *)

NavigationKeepsState ==
    lastOp' = "setActiveView" =>
        UNCHANGED <<products, userPreferences, browsingHistory,
                    recommendations, error>>

\* C11 (as claimed): in every reachable state activeView is one of
\* 'catalog', 'preferences', 'history', 'recommendations' (initially
\* 'catalog') and exactly one view is rendered.
C11_ExactlyOneView ==
    /\ activeView \in Views
    /\ lastOp = "mount" => activeView = "catalog"
    /\ Cardinality(ViewsRendered) = 1

\* C11 (amended): activeView is always one of the four views, initially
\* 'catalog'; while the initial load runs the loading screen is rendered
\* and no view, afterwards exactly one view, the one activeView names; and
\* a click on a navigation button leaves products, userPreferences,
\* browsingHistory, recommendations and error unchanged.
C11_OneViewOnceLoaded ==
    /\ [](/\ activeView \in Views
          /\ lastOp = "mount" => activeView = "catalog"
          /\ ViewsRendered = IF isInitialLoading THEN {} ELSE {activeView})
    /\ [][NavigationKeepsState]_vars

\* C11 witness: a navigation button was clicked while the banner showed an
\* error and the history and the results were not empty.
C11_Witness ==
    /\ lastOp = "setActiveView"
    /\ activeView = "history"
    /\ error # Null
    /\ browsingHistory # <<>>
    /\ recommendations # <<>>

-----------------------------------------------------------------------------
(* Properties of the Catalog filters *)

Displayed == {FilteredProducts[i] : i \in 1..Len(FilteredProducts)}
Served == {products[i] : i \in 1..Len(products)}
PassesPriceAndSearch(p) ==
    /\ filters.priceRange.min <= p.price
    /\ p.price <= filters.priceRange.max
    /\ Trim(filters.searchQuery) # <<>> => MatchesQuery(p)

\* C12: when filters.category is c and c is not 'all', the displayed
\* products are exactly the products of category c that pass the price-range
\* and search filters; with 'all' the displayed products are exactly those
\* that pass the price-range and search filters, whatever their category.
C12_CategoryFilter ==
    /\ Len(FilteredProducts) = Cardinality(Displayed)
    /\ filters.category # "all" =>
          Displayed = {p \in Served : /\ p.category = filters.category
                                      /\ PassesPriceAndSearch(p)}
    /\ filters.category = "all" =>
          Displayed = {p \in Served : PassesPriceAndSearch(p)}

\* C12 witness: a category was selected while a search and a price range
\* were set; one product is displayed, one of the category is excluded by
\* its price and one that passes price and search is excluded by its
\* category.
C12_Witness ==
    /\ lastOp = "handleFilterChange"
    /\ filters.category = "audio"
    /\ Trim(filters.searchQuery) # <<>>
    /\ filters.priceRange.min > 0
    /\ Cardinality(Displayed) = 1
    /\ \E p \in Served : p.category = "audio" /\ ~InPriceRange(p)
    /\ \E p \in Served : p.category # "audio" /\ PassesPriceAndSearch(p)

-----------------------------------------------------------------------------
(* Properties of the initial load *)

HealthResolves == settled.health = "pending" /\ settled'.health = "resolved"
HealthRejects == settled.health = "pending" /\ settled'.health = "rejected"
ConnectionError ==
    "Unable to connect to the recommendation service. Please check if the backend is running."

HealthCheckedFirst ==
    /\ (sent'.products # sent.products \/ sent'.categories # sent.categories)
          => HealthResolves
    /\ (apiStatus' = "connected" /\ apiStatus # "connected") => HealthResolves
    /\ HealthRejects =>
          /\ ~isInitialLoading'
          /\ error' = ConnectionError
          /\ apiStatus' = "error"

\* C13: the /products and /categories requests are sent, and apiStatus
\* becomes 'connected', only on the step where healthCheck resolves; once
\* healthCheck has rejected no /products or /categories request is ever sent,
\* products stays empty, and the load finishes on that step with the
\* connection error message.
C13_HealthFirst ==
    /\ [](/\ (sent.products > 0 \/ sent.categories > 0
                \/ apiStatus = "connected") => settled.health = "resolved"
          /\ settled.health = "rejected" =>
                /\ sent.products = 0
                /\ sent.categories = 0
                /\ products = <<>>
                /\ ~isInitialLoading)
    /\ [][HealthCheckedFirst]_vars

\* C13 witness: healthCheck rejected and the user went on to use the App.
C13_Witness ==
    /\ settled.health = "rejected"
    /\ lastOp = "handleGetRecommendations:invalid"

LoadCompletes == loadPc = "fetch" /\ loadPc' = "done"
FetchedProducts == Val(productsPromise.value).items

CategoriesAreOptional ==
    ( /\ LoadCompletes
      /\ settled'.health = "resolved"
      /\ settled'.products = "resolved"
      /\ FetchedProducts' # <<>>
      /\ settled'.categories = "rejected" )
    => /\ products' = FetchedProducts'
       /\ categories' = <<>>
       /\ error' = Null
       /\ apiStatus' = "connected"
       /\ ~isInitialLoading'

\* C14: when the load completes after healthCheck and fetchProducts have
\* succeeded with a non-empty product list and fetchCategories has failed,
\* products is the fetched list, categories is the empty list, error is null
\* and apiStatus is 'connected'.
C14_CategoriesOptional == [][CategoriesAreOptional]_vars

\* C14 witness: the load has completed with products although
\* fetchCategories failed.
C14_Witness ==
    /\ lastOp = "load:loaded"
    /\ settled.categories = "rejected"
    /\ products = ServedCatalog
    /\ categories = <<>>

-----------------------------------------------------------------------------
(* Properties of handleGetRecommendations *)

ButtonClicked == recClicks' = recClicks + 1
NothingToRecommendFrom ==
    browsingHistory = <<>> /\ userPreferences.categories = <<>>
ValidationMessage ==
    "Please set some preferences or browse products before getting recommendations."

ValidationStopsRequest ==
    (ButtonClicked /\ NothingToRecommendFrom)
    => /\ sent' = sent
       /\ recInFlight' = recInFlight
       /\ error' = ValidationMessage
       /\ UNCHANGED <<isLoadingRecommendations, recommendations, activeView>>

\* C15: a click on a Get AI Recommendations button while browsingHistory
\* and userPreferences.categories are both empty sends no request, sets
\* error to the validation message and leaves isLoadingRecommendations,
\* recommendations and activeView unchanged.
C15_ValidationStopsRequest == [][ValidationStopsRequest]_vars

\* C15 witness: the handler refused a click made while earlier results were
\* displayed and no request had been sent for it.
C15_Witness ==
    /\ lastOp = "handleGetRecommendations:invalid"
    /\ NothingToRecommendFrom
    /\ error = ValidationMessage
    /\ recommendations # <<>>
    /\ recClicks = sent.recommendations + 1

\* the step completes the request at position i with outcome o
Settles(i, o) == RecommendationsSettle(i, o)
InFlight == 1..Len(recInFlight)

SuccessShowsResults ==
    \A i \in InFlight, o \in RecommendationsOutcomes :
        (Settles(i, o) /\ ~RequestFailed(o) /\ ~EmptyRecommendations(o))
        => /\ recommendations' = Val(o.data.recommendations)
           /\ activeView' = "recommendations"
           /\ error = Null
           /\ error' = Null
           /\ isLoadingRecommendations
           /\ ~isLoadingRecommendations'

\* C16: when a recommendations request returns a response whose
\* recommendations list is non-empty, recommendations becomes that list,
\* activeView becomes 'recommendations' whatever it was, error is null
\* before and after the step and isLoadingRecommendations goes from true to
\* false.
C16_SuccessShowsResults == [][SuccessShowsResults]_vars

\* C16 witness: results are displayed for a request that was sent from
\* another view, where the user cleared the history or the preferences
\* while it was in flight.
C16_Witness ==
    /\ lastOp = "recommendations:resolved"
    /\ recommendations = RecommendationList
    /\ activeView = "recommendations"
    /\ NothingToRecommendFrom

FailureDiscardsResults ==
    \A i \in InFlight, o \in RecommendationsOutcomes :
        (Settles(i, o) /\ (RequestFailed(o) \/ EmptyRecommendations(o)))
        => /\ recommendations' = <<>>
           /\ activeView' = activeView
           /\ error' # Null
           /\ (EmptyRecommendations(o) /\ CarriesErrorField(o))
                 => error' = "Recommendation Error: " \o Val(o.data.error)

\* C17: when a recommendations request fails or returns a response with an
\* empty or missing recommendations list, recommendations becomes the empty
\* list, activeView does not change and error is set; it is
\* 'Recommendation Error: <error>' when the returned response carries an
\* error field.
C17_FailureDiscardsResults == [][FailureDiscardsResults]_vars

\* C17 witness: a second request, made from the recommendations view,
\* returned no recommendations and an error field.
C17_Witness ==
    /\ lastOp = "recommendations:empty"
    /\ sent.recommendations = 2
    /\ activeView = "recommendations"
    /\ recommendations = <<>>
    /\ error = "Recommendation Error: LLM quota exceeded"

-----------------------------------------------------------------------------
(* Termination of the loading states *)

ButtonsEnabled == \A b \in Buttons : ~ButtonDisabled(b)

\* C18: if every backend call eventually settles, isLoadingRecommendations,
\* once true, eventually becomes false again with the Get AI
\* Recommendations buttons enabled, and every way a request settles
\* (success, empty result, failure) clears it.
C18_LoadingStateEnds ==
    /\ isLoadingRecommendations
          ~> (~isLoadingRecommendations /\ ButtonsEnabled)
    /\ [][\A i \in InFlight, o \in RecommendationsOutcomes :
              Settles(i, o) => ~isLoadingRecommendations' /\ ButtonsEnabled']_vars

\* C18 witness: a request has settled, with a failure, and the buttons are
\* enabled.
C18_Witness ==
    /\ lastOp = "recommendations:rejected"
    /\ sent.recommendations = 1
    /\ ~isLoadingRecommendations
    /\ ButtonsEnabled

\* C19: if every backend call eventually settles, isInitialLoading, true
\* when App mounts, eventually becomes false, and once false it is never
\* true again.
C19_InitialLoadEnds ==
    /\ [](lastOp = "mount" => isInitialLoading)
    /\ <>(~isInitialLoading)
    /\ [][~isInitialLoading => ~isInitialLoading']_vars

\* C19 witness: the load has finished on the empty product list and the
\* user has gone on to another view.
C19_Witness ==
    /\ ~isInitialLoading
    /\ settled.products = "resolved"
    /\ products = <<>>
    /\ apiStatus = "error"
    /\ activeView = "preferences"

-----------------------------------------------------------------------------
(* Properties of the stored preferences *)

ListNames == {"audio", "home", "Ace"}
RatingStored(given) ==
    IF ~Has(given) \/ Val(given) < 0 THEN 0
    ELSE IF Val(given) > 5 THEN 5
    ELSE Val(given)

StoresValidated ==
    \A n \in AnyPreferences :
        HandlePreferencesChange(n)
        => /\ userPreferences'.minRating = RatingStored(n.minRating)
           /\ ~Has(n.categories) => userPreferences'.categories = <<>>
           /\ ~Has(n.brands) => userPreferences'.brands = <<>>
           /\ Has(n.categories) =>
                 userPreferences'.categories = Val(n.categories)
           /\ Has(n.brands) => userPreferences'.brands = Val(n.brands)

\* C20: in every reachable state userPreferences.minRating lies in 0..5 and
\* userPreferences.categories and userPreferences.brands are lists; a
\* rating below 0 or missing is stored as 0, a rating above 5 as 5, a
\* missing list as the empty list, whatever object is passed in.
C20_PreferencesValidated ==
    /\ [](/\ userPreferences.minRating \in 0..5
          /\ userPreferences.categories \in Seq(ListNames)
          /\ userPreferences.brands \in Seq(ListNames))
    /\ [][StoresValidated]_vars

\* C20 witness: an object with an out-of-range rating and a list was
\* stored with the rating clamped to 5.
C20_Witness ==
    /\ lastOp = "handlePreferencesChange"
    /\ userPreferences.minRating = 5
    /\ userPreferences.categories = <<"audio">>
    /\ userPreferences.brands = <<>>
    /\ userPreferences.lifestyleType = "active"

-----------------------------------------------------------------------------
(* Properties of the preferences form *)

PriceRangeError(prefs) ==
    /\ prefs.priceRange = "custom"
    /\ Has(CustomPriceRange(prefs))
    /\ LET range == Val(CustomPriceRange(prefs)) IN
       \/ Has(range.min) /\ Has(range.max) /\ ~(Val(range.min) < Val(range.max))
       \/ Has(range.min) /\ Val(range.min) < 0
TooManyCategories(prefs) == Len(prefs.categories) > CategoryLimit

\* every object a control of the form can hand to updatePreferences
Proposals ==
    {WithCategory(c[1], c[2]) : c \in CategoryClicks}
    \cup {WithBrand(BrandName, b) : b \in BOOLEAN}
    \cup {WithPreset(v) : v \in PresetsOffered}
    \cup {WithCustomRange(v) : v \in CustomRangeInputs}
    \cup {WithField("minRating", r) : r \in RatingsOffered}
    \cup {ClearedPreferences}

OnlyCriticalErrorsBlock ==
    \A newPrefs \in Proposals :
        UpdatePreferences(newPrefs) =>
            /\ PriceRangeError(newPrefs) =>
                  /\ UNCHANGED <<localPreferences, userPreferences>>
                  /\ Has(validationErrors'.priceRange)
            /\ (~PriceRangeError(newPrefs) /\ TooManyCategories(newPrefs)) =>
                  /\ localPreferences' = newPrefs
                  /\ userPreferences' = newPrefs
                  /\ Has(validationErrors'.categories)
            /\ (~PriceRangeError(newPrefs) /\ ~TooManyCategories(newPrefs)) =>
                  /\ localPreferences' = newPrefs
                  /\ userPreferences' = newPrefs
                  /\ validationErrors' = NoErrors

\* C21: when updatePreferences is called with preferences that have a price
\* range error (custom minimum not less than the maximum, or negative),
\* localPreferences and userPreferences do not change and validationErrors
\* holds the price range error; when the only error is the
\* more-than-5-categories error, or there is none, the new preferences are
\* stored locally and in App.
C21_OnlyCriticalErrorsBlock == [][OnlyCriticalErrorsBlock]_vars

\* C21 witness: six categories are stored, with the categories error
\* displayed, and a custom range typed afterwards was refused with the
\* price range error.
C21_Witness ==
    /\ lastOp = "updatePreferences:rejected"
    /\ Len(userPreferences.categories) = CategoryLimit + 1
    /\ localPreferences = userPreferences
    /\ Has(validationErrors.priceRange)
    /\ Has(validationErrors.categories)

PassingFilters == FilterSearch(FilterPrice(FilterCategory(products)))
Occurrences(list, x) == Cardinality({i \in 1..Len(list) : list[i] = x})
IsPermutation(xs, ys) ==
    /\ Len(xs) = Len(ys)
    /\ \A i \in 1..Len(ys) : Occurrences(xs, ys[i]) = Occurrences(ys, ys[i])
NonIncreasing(list, Key(_)) ==
    \A i \in 1..(Len(list) - 1) : Key(list[i]) >= Key(list[i + 1])
RatingOf(p) == IF Has(p.rating) THEN Val(p.rating) ELSE 0
InventoryOf(p) == IF Has(p.inventory) THEN Val(p.inventory) ELSE 0
PriceOf(p) == p.price
NegatedPriceOf(p) == 0 - p.price

SortedBySelectedKey ==
    /\ IsPermutation(FilteredProducts, PassingFilters)
    /\ filters.sortBy = "rating" => NonIncreasing(FilteredProducts, RatingOf)
    /\ filters.sortBy = "price-low" =>
          NonIncreasing(FilteredProducts, NegatedPriceOf)
    /\ filters.sortBy = "price-high" => NonIncreasing(FilteredProducts, PriceOf)
    /\ filters.sortBy = "inventory" =>
          NonIncreasing(FilteredProducts, InventoryOf)

\* C22: filteredProducts is a permutation of the products passing the
\* filters, in non-increasing rating order for 'rating' and non-increasing
\* inventory order for 'inventory' (a missing value counts as 0), in
\* non-decreasing price order for 'price-low' and non-increasing price order
\* for 'price-high'; no filter control changes the products prop.
C22_SortedBySelectedKey ==
    /\ []SortedBySelectedKey
    /\ [][products' = products]_vars

\* C22 witness: sorted by inventory, three products are displayed in
\* another order than the prop lists them, the one without an inventory
\* last.
C22_Witness ==
    /\ lastOp = "handleFilterChange"
    /\ filters.sortBy = "inventory"
    /\ Len(FilteredProducts) = 3
    /\ FilteredProducts # PassingFilters
    /\ ~Has(FilteredProducts[3].inventory)

-----------------------------------------------------------------------------
(* Properties of the Recommendations panel *)

Shown == SortedRecommendations(ArrayPayload(recommendations))
NotArrays == {NullPayload, EmptyObject}

SortedByConfidence ==
    /\ IsPermutation(Shown, recommendations)
    /\ NonIncreasing(Shown, ScoreOf)
    /\ \A index \in 0..(Len(Shown) - 1) :
          /\ RankBadge(index) \in 1..Len(Shown)
          /\ \A other \in 0..(Len(Shown) - 1) :
                RankBadge(index) < RankBadge(other)
                   => ScoreOf(Shown[index + 1]) >= ScoreOf(Shown[other + 1])
    /\ \A prop \in NotArrays : SortedRecommendations(prop) = <<>>

\* C23: sortedRecommendations is a permutation of the recommendations prop
\* in non-increasing confidence_score order (a missing score counts as 0),
\* a card with a smaller rank badge never has a smaller score, a prop that
\* is not an array yields the empty list, and showing the panel does not
\* change the recommendations held by App.
C23_SortedByConfidence ==
    /\ []SortedByConfidence
    /\ [][recommendations' = recommendations]_vars

\* C23 witness: the panel is opened on three recommendations that arrive
\* with the one without a score first and the best one last.
C23_Witness ==
    /\ lastOp = "setActiveView"
    /\ activeView = "recommendations"
    /\ Len(recommendations) = MaxRecommendations
    /\ "confidence_score" \notin DOMAIN recommendations[1]
    /\ Shown[1] = recommendations[3]
    /\ Shown[3] = recommendations[1]

-----------------------------------------------------------------------------
(* Properties of Clear History *)

ClearOnlyOnConfirmation ==
    /\ HandleClearHistory(FALSE) => browsingHistory' = browsingHistory
    /\ HandleClearHistory(TRUE) =>
          /\ browsingHistory' = <<>>
          /\ UNCHANGED <<products, userPreferences, recommendations,
                         activeView, error>>
    /\ (browsingHistory # <<>> /\ browsingHistory' = <<>>)
          => lastOp' = "handleClearHistory"

\* C24: when the user declines the confirm dialog browsingHistory is
\* unchanged; when the user accepts it becomes the empty list while
\* products, userPreferences, recommendations, activeView and error are
\* unchanged; and a history that is not empty becomes empty in no other
\* way.
C24_ClearOnlyOnConfirmation == [][ClearOnlyOnConfirmation]_vars

\* C24 witness: the history was cleared while preferences, results and an
\* error were there.
C24_Witness ==
    /\ lastOp = "handleClearHistory"
    /\ browsingHistory = <<>>
    /\ clock > 0
    /\ userPreferences # DefaultPreferences
    /\ recommendations # <<>>
    /\ error # Null

-----------------------------------------------------------------------------
(* The buttons against the validation *)

ButtonOffered ==
    \E b \in Buttons : ButtonRendered(b) /\ ~ButtonDisabled(b)

\* C25: whenever a Get AI Recommendations button is offered and enabled
\* (canGetRecommendations is true and isLoadingRecommendations is false),
\* the validation inside handleGetRecommendations passes, so that a click
\* sends a POST /recommendations request.
C25_OfferedButtonSends == ButtonOffered => ~ValidationFails

RequestInFlight == recInFlight # <<>>

\* C26: isLoadingRecommendations is true exactly while a POST
\* /recommendations request is in flight (from the click that sends it
\* until its response or failure has been processed), it is false when App
\* mounts, and no request is in flight while isInitialLoading is true.
C26_LoadingWhileInFlight ==
    /\ isLoadingRecommendations <=> RequestInFlight
    /\ lastOp = "mount" => ~isLoadingRecommendations
    /\ isInitialLoading => ~RequestInFlight

\* C26 witness: a request is in flight and the user has changed the
\* preferences meanwhile.
C26_Witness ==
    /\ RequestInFlight
    /\ isLoadingRecommendations
    /\ lastOp = "handlePreferencesChange"
    /\ recInFlight[1].preferences # userPreferences

====
